---- MODULE Spec2Model ----
(***************************************************************************)
(* Model of 5Q13.py: a Streamlit quiz page.  A CSV question table is       *)
(* filtered by year and category, every item's five options are shuffled,  *)
(* the answers are graded on "回答" and a certificate is issued on          *)
(* "証明書を発行".                                                           *)
(*                                                                         *)
(* Three specifications:                                                   *)
(*   SpecFilter  the function filter_and_sort_quiz_data on bounded inputs  *)
(*   SpecCert    the function generate_certificate on bounded inputs       *)
(*   Spec        the page: one action per user interaction, each followed  *)
(*               by one complete run of main() (Streamlit reruns the       *)
(*               script top to bottom after every interaction).            *)
(***************************************************************************)
EXTENDS Integers, Sequences, FiniteSets, TLC

VARIABLES
    \* what is exercised (the function and its arguments; for the page, main
    \* and the question table the user owns) and what a function returned
    call, ret,
    \* the widgets' values, kept by the browser between runs
    uploaded_file, selected_years, selected_categories, radio,
    \* st.session_state (lines 101-122, 190-191)
    quiz_data, current_quiz_data, answers, shuffled_options,
    highlighted_questions, show_result, name, score, accuracy_rate,
    \* what the last run of main() put on the page
    page

harness == <<call, ret>>
widgets == <<uploaded_file, selected_years, selected_categories, radio>>
session_state == <<quiz_data, current_quiz_data, answers, shuffled_options,
                   highlighted_questions, show_result, name, score, accuracy_rate>>
vars == <<harness, widgets, session_state, page>>

\* ---------------------------------------------------------------- bounds
\* Longest question table drawn in SpecFilter.
MaxRows == 2
\* Longest facet selection list handed to filter_and_sort_quiz_data in
\* SpecFilter.
MaxSel == 2
\* Longest facet selection list a multiselect of the page returns.
MaxPageSel == 1
\* The page specification's random source: rotations by 0..MaxRot places.
MaxRot == 1
\* Largest count handed to generate_certificate in SpecCert.
MaxCount == 2

\* ------------------------------------------------------------- constants
\* option1 .. option5 (line 42).
NumOptions == 5
\* The sentinel "すべて" of the two multiselects (lines 26, 28, 132, 133).
ALL == "all"
\* Python's None where the other values are strings (an answer, a radio).
None == "None"
\* Python's None, or an attribute st.session_state does not have, where the
\* other values are not strings; a value v that is there is <<v>>.
NoValue == <<>>

\* ------------------------------------------------------------ the tables
\* One row of the DataFrame: columns year, category, question,
\* option1..option5 (kept as the 5-sequence options) and answer.
Row(y, c, q, o, a) ==
    [year |-> y, category |-> c, question |-> q, options |-> o, answer |-> a]

\* Rows the bounded tables are made of.  Row1 has five distinct options;
\* Row2..Row5 repeat an option text.  Row2/Row3 share a question text but
\* differ in options and answer, Row2/Row4 share a (year, category) group,
\* Row4's answer is none of its options.
Row1 == Row("R1", "C1", "Q1", <<"a", "b", "c", "d", "e">>, "c")
Row2 == Row("R2", "C1", "Q2", <<"a", "b", "b", "b", "b">>, "a")
Row3 == Row("R1", "C2", "Q2", <<"b", "a", "a", "a", "a">>, "b")
Row4 == Row("R2", "C1", "Q3", <<"a", "b", "b", "b", "b">>, "z")
Row5 == Row("R1", "C1", "Q4", <<"b", "b", "a", "b", "b">>, "b")
Rows == {Row2, Row3, Row4}

Years == {"R1", "R2"}
Categories == {"C1", "C2"}

\* Sequences over S without repetition, of length at most n.
DupFreeSeqs(S, n) ==
    UNION {{s \in [1..k -> S] : \A i, j \in 1..k : i # j => s[i] # s[j]} : k \in 0..n}

\* The question tables of SpecFilter: up to MaxRows of Rows in any order, and
\* the table of Row1 alone.
Tables == DupFreeSeqs(Rows, MaxRows) \cup {<<Row1>>}
\* The values a multiselect over a facet can return.
YearSelections == DupFreeSeqs(Years \cup {ALL}, MaxSel)
CategorySelections == DupFreeSeqs(Categories \cup {ALL}, MaxSel)

\* --------------------------------------------------------- pandas helpers
SeqToSet(s) == {s[i] : i \in 1..Len(s)}

\* x in list
InSeq(x, s) == \E i \in 1..Len(s) : s[i] = x

\* df[col]
Column(df, col) == [i \in 1..Len(df) |-> df[i][col]]

\* Series.unique().tolist(): the distinct values in order of first appearance.
Unique(s) ==
    LET F[i \in 0..Len(s)] ==
            IF i = 0 THEN <<>>
            ELSE IF InSeq(s[i], F[i - 1]) THEN F[i - 1] ELSE Append(F[i - 1], s[i])
    IN  F[Len(s)]

\* Concatenation of a sequence of sequences (list.extend in a loop).
Flatten(ss) ==
    LET F[i \in 0..Len(ss)] == IF i = 0 THEN <<>> ELSE F[i - 1] \o ss[i]
    IN  F[Len(ss)]

\* ----------------------------------------- filter_and_sort_quiz_data
\* Lines 26-29: a selection holding the sentinel is replaced by the distinct
\* values of the column.
Expand(df, col, selected) ==
    IF InSeq(ALL, selected) THEN Unique(Column(df, col)) ELSE selected

\* Line 31: rows whose year and category are both selected.
FilteredDf(df, years, cats) ==
    SelectSeq(df, LAMBDA r : InSeq(r.year, years) /\ InSeq(r.category, cats))

\* Mutant of SortedQuizzes: the two loops swapped (years outside).
SortedQuizzesYearFirst(df, years, cats) ==
    LET fdf == FilteredDf(df, years, cats)
    IN  Flatten([yi \in 1..Len(years) |->
            Flatten([ci \in 1..Len(cats) |->
                SelectSeq(fdf, LAMBDA r : r.category = cats[ci] /\ r.year = years[yi])])])

\* Lines 33-38: for category in selected_categories, for year in
\* selected_years, extend by the rows of that group in table order.
SortedQuizzes(df, years, cats) ==
    LET fdf == FilteredDf(df, years, cats)
    IN  Flatten([ci \in 1..Len(cats) |->
            LET category_df == SelectSeq(fdf, LAMBDA r : r.category = cats[ci])
            IN  Flatten([yi \in 1..Len(years) |->
                    SelectSeq(category_df, LAMBDA r : r.year = years[yi])])])

\* The permutations of 1..NumOptions.
Perms == {p \in [1..NumOptions -> 1..NumOptions] :
            \A i, j \in 1..NumOptions : i # j => p[i] # p[j]}

\* Rotation of 1..NumOptions by k places.
Rotation(k) == [i \in 1..NumOptions |-> ((i + k - 1) % NumOptions) + 1]

\* The outcomes of the random source the page specification draws from: the
\* rotations by 0..MaxRot places (SpecFilter draws from all of Perms).
PagePerms == {Rotation(k) : k \in 0..MaxRot}

\* Mutant of Shuffles: random.choices(options, k=5), sampling with
\* replacement, instead of a shuffle of the copy.
ShufflesWithReplacement(options, perms) ==
    {[i \in 1..NumOptions |-> options[p[i]]] :
        p \in [1..NumOptions -> 1..NumOptions]}

\* Lines 44-45: the outcomes of random.shuffle on a copy of options, the
\* random source ranging over perms.
Shuffles(options, perms) ==
    {[i \in 1..NumOptions |-> options[p[i]]] : p \in perms}

\* Lines 47-51: the items one row can become.
ItemsOf(quiz, perms) ==
    {[question |-> quiz.question, options |-> so, correct_option |-> quiz.answer] :
        so \in Shuffles(quiz.options, perms)}

\* Lines 40-53: every quiz_data list the loop can build from sorted_quizzes.
BuildQuizData(sorted_quizzes, perms) ==
    LET F[i \in 0..Len(sorted_quizzes)] ==
            IF i = 0 THEN {<<>>}
            ELSE {Append(qd, it) :
                    qd \in F[i - 1], it \in ItemsOf(sorted_quizzes[i], perms)}
    IN  F[Len(sorted_quizzes)]

\* Lines 26-38: the local sorted_quizzes.
SortedOf(df, sel_years, sel_categories) ==
    SortedQuizzes(df, Expand(df, "year", sel_years),
                      Expand(df, "category", sel_categories))

\* Lines 23-56: the set of lists the function can return.  The rows of the
\* modelled tables carry all nine columns, so no statement of the try block
\* raises and the except branch (return []) is not taken.
filter_and_sort_quiz_data(df, sel_years, sel_categories, perms) ==
    BuildQuizData(SortedOf(df, sel_years, sel_categories), perms)

\* --------------------------------------------------------- Python numbers
\* An int or a float, kept as the exact fraction num/den (den > 0).
PyInt(n) == [kind |-> "int", num |-> n, den |-> 1]

RECURSIVE Gcd(_, _)
Gcd(a, b) == IF b = 0 THEN a ELSE Gcd(b, a % b)

PyFloat(n, d) ==
    LET g == Gcd(n, d) IN [kind |-> "float", num |-> n \div g, den |-> d \div g]

\* a / b for b # 0: true division always gives a float.
TrueDiv(a, b) == PyFloat(a.num * b.den, a.den * b.num)

\* a * k for an int k.
Times(a, k) ==
    IF a.kind = "int" THEN PyInt(a.num * k) ELSE PyFloat(a.num * k, a.den)

\* The decimal digits of r/d (0 <= r < d), at most k of them.
RECURSIVE FracDigits(_, _, _)
FracDigits(r, d, k) ==
    IF r = 0 \/ k = 0 THEN ""
    ELSE ToString((r * 10) \div d) \o FracDigits((r * 10) % d, d, k - 1)

\* str(x) as an f-string field shows it: 1 for the int, 100.0 for the float
\* (a float that is no whole number shows its leading fraction digits).
Str(x) ==
    IF x.kind = "int" THEN ToString(x.num)
    ELSE IF x.num % x.den = 0 THEN ToString(x.num \div x.den) \o ".0"
    ELSE ToString(x.num \div x.den) \o "." \o FracDigits(x.num % x.den, x.den, 16)

\* f"{x:.2f}": x rounded to hundredths.
Format2f(x) ==
    LET h == (2 * 100 * x.num + x.den) \div (2 * x.den)
        c == h % 100
    IN  ToString(h \div 100) \o "." \o (IF c < 10 THEN "0" ELSE "") \o ToString(c)

\* ', '.join(xs)
Join(xs) ==
    LET F[i \in 0..Len(xs)] ==
            IF i = 0 THEN ""
            ELSE IF i = 1 THEN xs[1] ELSE F[i - 1] \o ", " \o xs[i]
    IN  F[Len(xs)]

\* --------------------------------------------------- generate_certificate
\* Line 80: f"{correct_answers_count / total_questions * 100:.2f}%".  The
\* division raises ZeroDivisionError for a zero divisor, int or float.
AccuracyLine(correct_answers_count, total_questions) ==
    IF total_questions.num = 0 THEN [raised |-> TRUE, text |-> ""]
    ELSE [raised |-> FALSE,
          text |-> Format2f(Times(TrueDiv(correct_answers_count, total_questions), 100))
                   \o "%"]

\* Lines 59-95.  The text drawn on the figure (lines 74-81, the time stamp
\* left out) when the try block ends normally; NoValue, the model of the
\* (None, None) of line 95, when line 80 raises.  Font and file system are
\* taken to work.
generate_certificate(nm, years, cats, correct_answers_count, total_questions) ==
    LET acc == AccuracyLine(correct_answers_count, total_questions)
    IN  IF acc.raised THEN NoValue
        ELSE <<[shimei |-> nm,
                kaisuu |-> Join(years),
                bunya  |-> Join(cats),
                seitousuu |-> Str(correct_answers_count) \o " / "
                              \o Str(total_questions),
                sukoa |-> acc.text]>>

\* ------------------------------------------------------------- the page
\* What the file uploader holds: nothing, a file pd.read_csv fails on, or a
\* CSV file with its table.
NoFile == [kind |-> "none", df |-> <<>>]
BadFile == [kind |-> "bad", df |-> <<>>]
CsvFile(df) == [kind |-> "csv", df |-> df]

\* The question tables of the page specification; a session uploads one of
\* them (call.df), or a file that cannot be read.  TableA holds two rows with
\* the same question text, and none in year R1 and category C1 at once.
TableA == <<Row2, Row3>>
TableB == <<Row5, Row2>>
PageTables == {TableA, TableB}

\* What the user can type into the name field.
Names == {"", "Alice"}

\* Lines 12-20: the DataFrame, or NoValue when reading fails.
load_quiz_data(file) == IF file.kind = "csv" THEN <<file.df>> ELSE NoValue

\* dict.get(key, None)
Get(d, key) == IF key \in DOMAIN d THEN d[key] ELSE None

\* d[key] = value
Put(d, key, value) == [k \in DOMAIN d \cup {key} |-> IF k = key THEN value ELSE d[k]]

\* Line 142: {quiz["question"]: None for quiz in current_quiz_data}
NoAnswers(items) == [q \in {items[i].question : i \in 1..Len(items)} |-> None]

\* Lines 146-169: the display loop.  rd holds the radio widgets' values by
\* item position (key question_{i}_radio); a value that is not among the
\* options shown is no selection.  Line 162 hands answers.get(question) to
\* st.radio as index; it is a str, not None, when an earlier item of this run
\* with the same question text has a selection.  st.radio takes an int or
\* None: a library that checks its index (strict) raises and ends the run,
\* one that does not goes on without a preselection.
DisplayLoop(items, cache, ans, rd, strict) ==
    LET F[i \in 0..Len(items)] ==
            IF i = 0
            THEN [answers |-> ans, shuffled_options |-> cache, displayed |-> <<>>,
                  radio |-> <<>>, exc |-> "none"]
            ELSE LET prev == F[i - 1]
                     quiz == items[i]
                     q == quiz.question
                     so == IF q \in DOMAIN prev.shuffled_options
                           THEN prev.shuffled_options
                           ELSE Put(prev.shuffled_options, q, quiz.options)
                     options == so[q]
                     index == Get(prev.answers, q)
                     held == IF i <= Len(rd) THEN rd[i] ELSE None
                     selected_option == IF held \in SeqToSet(options) THEN held ELSE None
                 IN  IF prev.exc # "none" THEN prev
                     ELSE IF index # None /\ strict
                     THEN [prev EXCEPT !.shuffled_options = so,
                                       !.exc = "StreamlitAPIException"]
                     ELSE [answers |-> IF selected_option # None
                                       THEN Put(prev.answers, q, selected_option)
                                       ELSE prev.answers,
                           shuffled_options |-> so,
                           displayed |-> Append(prev.displayed, options),
                           radio |-> Append(prev.radio, selected_option),
                           exc |-> "none"]
    IN  F[Len(items)]

\* Mutant of IsCorrect: an unanswered item counted as correct.
IsCorrectOrUnanswered(correct_option, selected_option) ==
    selected_option = None \/ correct_option = selected_option

\* Line 180.
IsCorrect(correct_option, selected_option) == correct_option = selected_option

\* Lines 173-187: score, incorrect_data and highlighted_questions after the
\* grading loop.
GradeLoop(items, ans, highlighted) ==
    LET F[i \in 0..Len(items)] ==
            IF i = 0
            THEN [score |-> 0, incorrect_data |-> <<>>,
                  highlighted_questions |-> highlighted]
            ELSE LET prev == F[i - 1]
                     quiz == items[i]
                 IN  IF IsCorrect(quiz.correct_option, Get(ans, quiz.question))
                     THEN [prev EXCEPT !.score = @ + 1,
                                       !.highlighted_questions = @ \ {i}]
                     ELSE [prev EXCEPT !.incorrect_data = Append(@, quiz),
                                       !.highlighted_questions = @ \cup {i}]
    IN  F[Len(items)]

\* Mutant of QuizShown: the questions block entered without the test.
QuizShownAlways(items) == TRUE

\* Line 144: if st.session_state.current_quiz_data
QuizShown(items) == items # <<>>

\* st.session_state as one value.
SessionState ==
    [quiz_data |-> quiz_data, current_quiz_data |-> current_quiz_data,
     answers |-> answers, shuffled_options |-> shuffled_options,
     highlighted_questions |-> highlighted_questions, show_result |-> show_result,
     name |-> name, score |-> score, accuracy_rate |-> accuracy_rate]

\* A page with nothing on it: no exception, no radio group, no button, no
\* result lines (lines 193-194), no call of generate_certificate.  click is
\* the button whose press started the run, picked the radio values the
\* browser sent with it.
BlankPage(click) ==
    [click |-> click, picked |-> <<>>, exc |-> "none", displayed |-> <<>>,
     submit_button |-> FALSE,
     name_input |-> FALSE, cert_button |-> FALSE, graded |-> NoValue,
     certificate |-> NoValue]

\* Lines 173-197: the body of the "回答" button.  Line 189 divides outside
\* any try block.
Submit(s, rd, pg) ==
    LET total_questions == Len(s.quiz_data)
        G == GradeLoop(s.current_quiz_data, s.answers, s.highlighted_questions)
        s1 == [s EXCEPT !.highlighted_questions = G.highlighted_questions]
    IN  IF total_questions = 0
        THEN [s |-> s1, radio |-> rd, page |-> [pg EXCEPT !.exc = "ZeroDivisionError"]]
        ELSE LET rate == Times(TrueDiv(PyInt(G.score), PyInt(total_questions)), 100)
             IN  [s |-> [s1 EXCEPT !.score = <<G.score>>,
                                   !.accuracy_rate = <<rate>>,
                                   !.show_result = TRUE],
                  radio |-> rd,
                  page |-> [pg EXCEPT !.graded =
                               <<[score |-> G.score,
                                  total_questions |-> total_questions,
                                  incorrect_data |-> G.incorrect_data,
                                  accuracy_rate |-> Format2f(rate) \o "%"]>>]]

\* Lines 140-197 for one list qd returned by filter_and_sort_quiz_data.
QuizRun(s, qd, rd, click, strict) ==
    LET s1 == [s EXCEPT !.quiz_data = qd, !.current_quiz_data = qd,
                        !.answers = NoAnswers(qd)]
    IN  IF ~QuizShown(qd) THEN [s |-> s1, radio |-> <<>>, page |-> BlankPage(click)]
        ELSE LET L == DisplayLoop(qd, s1.shuffled_options, s1.answers, rd, strict)
                 s2 == [s1 EXCEPT !.answers = L.answers,
                                  !.shuffled_options = L.shuffled_options]
                 p2 == [BlankPage(click) EXCEPT !.displayed = L.displayed, !.exc = L.exc]
                 p3 == [p2 EXCEPT !.submit_button = TRUE]
             IN  IF L.exc # "none" THEN [s |-> s2, radio |-> L.radio, page |-> p2]
                 ELSE IF click # "submit" THEN [s |-> s2, radio |-> L.radio, page |-> p3]
                 ELSE Submit(s2, L.radio, p3)

\* Lines 128-197: nothing happens unless the table was read and both
\* multiselects hold something (line 139).
QuizPart(s, dfv, sy, sc, rd, click, strict) ==
    IF dfv = NoValue \/ sy = <<>> \/ sc = <<>>
    THEN {[s |-> s, radio |-> <<>>, page |-> BlankPage(click)]}
    ELSE {QuizRun(s, qd, rd, click, strict) :
            qd \in filter_and_sort_quiz_data(dfv[1], sy, sc, PagePerms)}

\* Lines 199-222, reached when nothing raised before; o is the outcome of
\* lines 128-197.  The arguments of line 205 are evaluated in order: the local
\* selected_years is unbound when the table was not read, st.session_state
\* has no score before the first grading.  Line 210 hands accuracy_rate over
\* as total_questions.
ResultPart(o, dfv, sy, sc, typed, click) ==
    IF o.page.exc # "none" THEN o
    ELSE LET s1 == [o.s EXCEPT !.name = IF o.s.show_result THEN typed ELSE @]
             pg == [o.page EXCEPT !.name_input = o.s.show_result,
                                  !.cert_button = TRUE]
         IN  IF click # "cert" THEN [o EXCEPT !.s = s1, !.page = pg]
             ELSE IF dfv = NoValue
             THEN [o EXCEPT !.s = s1, !.page = [pg EXCEPT !.exc = "UnboundLocalError"]]
             ELSE IF s1.score = NoValue
             THEN [o EXCEPT !.s = s1, !.page = [pg EXCEPT !.exc = "AttributeError"]]
             ELSE [o EXCEPT !.s = s1,
                            !.page = [pg EXCEPT !.certificate =
                                <<[correct_answers_count |-> PyInt(s1.score[1]),
                                   total_questions |-> s1.accuracy_rate[1],
                                   result |-> generate_certificate(
                                       s1.name, sy, sc, PyInt(s1.score[1]),
                                       s1.accuracy_rate[1])]>>]]

\* Lines 97-222: every outcome of one run of main().
Main(s, file, sy, sc, rd, typed, click, strict) ==
    IF file.kind = "none" THEN {[s |-> s, radio |-> <<>>, page |-> BlankPage(click)]}
    ELSE LET dfv == load_quiz_data(file)
         IN  {ResultPart(o, dfv, sy, sc, typed, click) :
                o \in QuizPart(s, dfv, sy, sc, rd, click, strict)}

\* Lines 129-137: what a multiselect over column col offers.
FacetChoices(file, col) ==
    DupFreeSeqs(SeqToSet(Unique(Column(file.df, col))) \cup {ALL}, MaxPageSel)

\* One interaction: the widgets take their new values and main() runs once.
\* The multiselects are part of the page only when the table was read.
Rerun(file, sy, sc, rd, typed, click) ==
    \E o \in Main(SessionState, file, sy, sc, rd, typed, click, call.strict_index) :
        /\ uploaded_file' = file
        /\ selected_years' = IF file.kind = "csv" THEN sy ELSE <<>>
        /\ selected_categories' = IF file.kind = "csv" THEN sc ELSE <<>>
        /\ radio' = o.radio
        /\ quiz_data' = o.s.quiz_data
        /\ current_quiz_data' = o.s.current_quiz_data
        /\ answers' = o.s.answers
        /\ shuffled_options' = o.s.shuffled_options
        /\ highlighted_questions' = o.s.highlighted_questions
        /\ show_result' = o.s.show_result
        /\ name' = o.s.name
        /\ score' = o.s.score
        /\ accuracy_rate' = o.s.accuracy_rate
        /\ page' = [o.page EXCEPT !.picked = rd]
        /\ UNCHANGED harness

\* The sessions of the page: the question table the user owns and whether
\* the installed st.radio checks its index argument (the library is not part
\* of the source; the check can only matter to a table that repeats a
\* question text).
RepeatsQuestion(df) ==
    \E i, j \in 1..Len(df) : i # j /\ df[i].question = df[j].question

PageSessions ==
    {[fn |-> "main", df |-> t, strict_index |-> b] :
        t \in PageTables, b \in BOOLEAN} \
    {[fn |-> "main", df |-> t, strict_index |-> FALSE] :
        t \in {u \in PageTables : ~RepeatsQuestion(u)}}

\* Lines 101-122 on the first run, before any file is uploaded.
InitPage ==
    /\ uploaded_file = NoFile
    /\ selected_years = <<>>
    /\ selected_categories = <<>>
    /\ radio = <<>>
    /\ quiz_data = <<>>
    /\ current_quiz_data = <<>>
    /\ answers = <<>>
    /\ shuffled_options = <<>>
    /\ highlighted_questions = {}
    /\ show_result = FALSE
    /\ name = ""
    /\ score = NoValue
    /\ accuracy_rate = NoValue
    /\ page = BlankPage("none")

\* Line 125: a file is put into the uploader (the multiselects start empty).
UploadFile ==
    \E f \in {BadFile, CsvFile(call.df)} \ {uploaded_file} :
        Rerun(f, <<>>, <<>>, <<>>, name, "none")

\* Line 125: the file is taken out of the uploader.
RemoveFile ==
    /\ uploaded_file # NoFile
    /\ Rerun(NoFile, <<>>, <<>>, <<>>, name, "none")

\* Line 136.
SelectYears ==
    /\ uploaded_file.kind = "csv"
    /\ \E sy \in FacetChoices(uploaded_file, "year") \ {selected_years} :
        Rerun(uploaded_file, sy, selected_categories, radio, name, "none")

\* Line 137.
SelectCategories ==
    /\ uploaded_file.kind = "csv"
    /\ \E sc \in FacetChoices(uploaded_file, "category") \ {selected_categories} :
        Rerun(uploaded_file, selected_years, sc, radio, name, "none")

\* Lines 159-164: one of the options shown for item i is picked.
ChooseOption ==
    \E i \in 1..Len(page.displayed) :
    \E o \in SeqToSet(page.displayed[i]) \ {radio[i]} :
        Rerun(uploaded_file, selected_years, selected_categories,
              [radio EXCEPT ![i] = o], name, "none")

\* Line 201: a name is typed into the field.
EnterName ==
    /\ page.name_input
    /\ \E typed \in Names \ {name} :
        Rerun(uploaded_file, selected_years, selected_categories, radio, typed, "none")

\* Line 172: "回答" is pressed.
ClickSubmit ==
    /\ page.submit_button
    /\ Rerun(uploaded_file, selected_years, selected_categories, radio, name, "submit")

\* Line 204: "証明書を発行" is pressed.
ClickCertificate ==
    /\ page.cert_button
    /\ Rerun(uploaded_file, selected_years, selected_categories, radio, name, "cert")

Init ==
    /\ InitPage
    /\ call \in PageSessions
    /\ ret = NoValue

Next ==
    \/ UploadFile
    \/ RemoveFile
    \/ SelectYears
    \/ SelectCategories
    \/ ChooseOption
    \/ EnterName
    \/ ClickSubmit
    \/ ClickCertificate

Spec == Init /\ [][Next]_vars

\* ------------------------------------ filter_and_sort_quiz_data, alone
\* The function is called once on a table and two selection lists; ret keeps
\* the locals after lines 26-29 and 33-38 next to the returned list.
InitFilter ==
    /\ InitPage
    /\ call \in {[fn |-> "filter", df |-> t, years |-> y, categories |-> c] :
                    t \in Tables, y \in YearSelections, c \in CategorySelections}
    /\ ret = NoValue

FilterCall ==
    /\ call.fn = "filter"
    /\ ret = NoValue
    /\ LET locals == [selected_years |-> Expand(call.df, "year", call.years),
                      selected_categories |->
                          Expand(call.df, "category", call.categories),
                      sorted_quizzes |->
                          SortedOf(call.df, call.years, call.categories)]
       IN  \E qd \in filter_and_sort_quiz_data(call.df, call.years,
                                                call.categories, Perms) :
               ret' = <<[selected_years |-> locals.selected_years,
                         selected_categories |-> locals.selected_categories,
                         sorted_quizzes |-> locals.sorted_quizzes,
                         quiz_data |-> qd]>>
    /\ UNCHANGED <<call, widgets, session_state, page>>

NextFilter == FilterCall

SpecFilter == InitFilter /\ [][NextFilter]_vars

\* ----------------------------------------- generate_certificate, alone
\* The totals handed over: ints, and the floats main() hands over (line 210).
CertTotals ==
    {PyInt(n) : n \in 0..MaxCount} \cup {PyFloat(0, 1), PyFloat(50, 1), PyFloat(100, 1)}

InitCert ==
    /\ InitPage
    /\ call \in {[fn |-> "cert", name |-> n, years |-> y, categories |-> c,
                  correct_answers_count |-> PyInt(k), total_questions |-> t] :
                    n \in Names, y \in DupFreeSeqs(Years, MaxSel),
                    c \in DupFreeSeqs(Categories, MaxSel),
                    k \in 0..MaxCount, t \in CertTotals}
    /\ ret = NoValue

CertCall ==
    /\ call.fn = "cert"
    /\ ret = NoValue
    /\ ret' = <<generate_certificate(call.name, call.years, call.categories,
                                     call.correct_answers_count, call.total_questions)>>
    /\ UNCHANGED <<call, widgets, session_state, page>>

NextCert == CertCall

SpecCert == InitCert /\ [][NextCert]_vars

\* ================================================================ claims
\* How often v occurs in s.
Count(v, s) == Cardinality({i \in 1..Len(s) : s[i] = v})

\* s and t hold the same values the same number of times.
SameMultiset(s, t) ==
    /\ Len(s) = Len(t)
    /\ \A v \in SeqToSet(s) \cup SeqToSet(t) : Count(v, s) = Count(v, t)

\* First position of x in s.
Pos(x, s) == CHOOSE i \in 1..Len(s) : s[i] = x /\ \A j \in 1..(i - 1) : s[j] # x

\* The call of SpecFilter has returned.
Filtered == call.fn = "filter" /\ ret # NoValue

C2_OptionsPermuted ==
    Filtered =>
        /\ Len(ret[1].quiz_data) = Len(ret[1].sorted_quizzes)
        /\ \A k \in 1..Len(ret[1].quiz_data) :
            /\ SameMultiset(ret[1].quiz_data[k].options, ret[1].sorted_quizzes[k].options)
            /\ ret[1].quiz_data[k].question = ret[1].sorted_quizzes[k].question
            /\ ret[1].quiz_data[k].correct_option = ret[1].sorted_quizzes[k].answer

\* C2 witness: an item whose options are in another order than its row's.
C2_Witness ==
    /\ Filtered
    /\ \E k \in 1..Len(ret[1].quiz_data) :
        /\ ret[1].quiz_data[k].options # ret[1].sorted_quizzes[k].options
        /\ SameMultiset(ret[1].quiz_data[k].options, ret[1].sorted_quizzes[k].options)

\* C5: every returned item has its correct_option among its options (a row
\* whose answer is none of its options yields no item).
C5_CorrectAmongOptions ==
    Filtered =>
        \A k \in 1..Len(ret[1].quiz_data) :
            InSeq(ret[1].quiz_data[k].correct_option, ret[1].quiz_data[k].options)

\* The call of SpecCert has returned.
Rendered == call.fn = "cert" /\ ret # NoValue

\* C6: generate_certificate with total_questions = 0 returns a certificate
\* (not the failure value) whose accuracy field reads "N/A".
C6_ZeroTotalNA ==
    (Rendered /\ call.total_questions.num = 0) =>
        /\ ret[1] # NoValue
        /\ ret[1][1].sukoa = "N/A"

\* The last run of main() graded a submission (lines 173-197).
Graded == call.fn = "main" /\ page.graded # NoValue

\* C3: on every submit the score is the number of current items whose
\* recorded answer equals the item's correct_option, an item without a
\* recorded answer is incorrect, the incorrect list is the non-matching items
\* in their order, and 0 <= score <= total, score + len(incorrect) = total =
\* number of current items.
C3_Grading ==
    Graded =>
        LET g == page.graded[1]
            items == current_quiz_data
            Recorded(i) == Get(answers, items[i].question)
            Matching == {i \in 1..Len(items) : Recorded(i) = items[i].correct_option}
        IN  /\ g.score = Cardinality(Matching)
            /\ score = <<g.score>>
            /\ \A i \in 1..Len(items) :
                Recorded(i) = None => InSeq(items[i], g.incorrect_data)
            /\ \E idx \in [1..Len(g.incorrect_data) -> (1..Len(items)) \ Matching] :
                /\ \A k, l \in 1..Len(g.incorrect_data) : k < l => idx[k] < idx[l]
                /\ \A k \in 1..Len(g.incorrect_data) : g.incorrect_data[k] = items[idx[k]]
            /\ 0 <= g.score
            /\ g.score <= g.total_questions
            /\ g.score + Len(g.incorrect_data) = g.total_questions
            /\ g.total_questions = Len(items)

\* C3 witness: a submission of two items, one answered correctly and one not
\* answered.
C3_Witness ==
    /\ Graded
    /\ page.graded[1].score = 1
    /\ page.graded[1].total_questions = 2
    /\ \E i \in 1..2 : Get(answers, current_quiz_data[i].question) = None

\* The user has picked, for every item built by the run, that item's own
\* correct option in the item's radio group.
AllCorrectPicked ==
    /\ call.fn = "main"
    /\ current_quiz_data # <<>>
    /\ Len(page.picked) = Len(current_quiz_data)
    /\ \A i \in 1..Len(page.picked) :
        page.picked[i] = current_quiz_data[i].correct_option

\* C4: when the user has picked every displayed item's correct option the
\* page keeps working, and a submit then gives score = total = len(items)
\* with no incorrect item, also when two items share a question text.
C4_RoundTrip ==
    AllCorrectPicked =>
        /\ page.exc # "StreamlitAPIException"
        /\ page.click = "submit" =>
            /\ page.graded # NoValue
            /\ page.graded[1].score = Len(current_quiz_data)
            /\ page.graded[1].total_questions = Len(current_quiz_data)
            /\ page.graded[1].incorrect_data = <<>>

\* C7: a certificate issued after a submission is handed that submission's
\* score and its number of graded items, and shows "score / total" and the
\* percentage score/total*100.
C7_CertificateArguments ==
    (call.fn = "main" /\ page.certificate # NoValue) =>
        LET c == page.certificate[1]
        IN  \E total \in 1..Len(call.df) :
                /\ Times(TrueDiv(PyInt(score[1]), PyInt(total)), 100) = accuracy_rate[1]
                /\ c.correct_answers_count = PyInt(score[1])
                /\ c.total_questions = PyInt(total)
                /\ c.result # NoValue
                /\ c.result[1].seitousuu = ToString(score[1]) \o " / " \o ToString(total)
                /\ c.result[1].sukoa = Format2f(accuracy_rate[1]) \o "%"

\* The table is loaded and both facets are selected, but no row matches.
ZeroItems ==
    /\ call.fn = "main"
    /\ uploaded_file.kind = "csv"
    /\ selected_years # <<>>
    /\ selected_categories # <<>>
    /\ current_quiz_data = <<>>

\* No run ends in a division error, and a rate is computed from a total > 0.
NoDivisionError ==
    /\ page.exc # "ZeroDivisionError"
    /\ page.graded # NoValue => page.graded[1].total_questions > 0

C9_CertificateAfterGrading ==
    (call.fn = "main" /\ page.click = "cert") =>
        /\ uploaded_file.kind = "csv"
        /\ score # NoValue
        /\ accuracy_rate # NoValue
        /\ page.exc = "none"
        /\ page.certificate # NoValue

\* C10: the options shown for an item (taken from shuffled_options by
\* question text) are a permutation of the item's own five options, so its
\* correct option is among them.
C10_DisplayedOwnOptions ==
    call.fn = "main" =>
        \A i \in 1..Len(page.displayed) :
            /\ SameMultiset(page.displayed[i], current_quiz_data[i].options)
            /\ InSeq(current_quiz_data[i].correct_option, page.displayed[i])

====
